---- MODULE Spec2Model ----
(***************************************************************************)
(* Model of the enrichment engine of src/semantic_enricher.py              *)
(* (class SemanticEnricher).  A DataFrame is a record                      *)
(*     [columns |-> set of column names, rows |-> sequence of rows]        *)
(* whose rows are functions from column name (and "index", the pandas row  *)
(* label) to value, in the row order of the frame.  None / NaN is the      *)
(* empty tuple and an optional number n is <<n>>.  Distances are           *)
(* represented by their squares (math.sqrt is monotone), thresholds on     *)
(* them are squared where they are compared.                               *)
(***************************************************************************)
EXTENDS Integers, Sequences, FiniteSets, TLC

VARIABLES
    definitions,    \* per constructed SemanticEnricher: self.definitions['metrics']
    enriched_data,  \* per constructed SemanticEnricher: self.enriched_data
    raw,            \* the DataFrame load_match_data returned
    pc,             \* "idle", "loop" (inside enrich's for loop) or "raised"
    self,           \* the enricher whose enrich call is in progress
    arg,            \* df, the argument of the enrich call in progress
    enriched_df,    \* enrich's local table
    k,              \* number of catalog entries the loop has gone through
    err,            \* the exception that ended enrich, "none" if none
    calls,          \* completed enrich calls: [self, df, out] as the caller saw them
    answers         \* the AssistantCoach's answers so far: [op, data, out]

vars == <<definitions, enriched_data, raw, pc, self, arg, enriched_df, k, err, calls,
          answers>>

None == <<>>

----------------------------------------------------------------------------
(* DataFrame helpers (the pandas operations the engine uses)               *)

RawColumns ==
    {"eventType", "gameTime", "roundNumber", "map", "killerTeam", "victimTeam",
     "playerX", "playerY", "killerX", "killerY", "victimX", "victimY"}

\* pd.DataFrame(events): one row per event, RangeIndex 0..n-1, one column per
\* key of the events (the events of a log of the model carry the same keys);
\* the table of an empty log has no column
DataFrame(events) ==
    LET keys == UNION {DOMAIN events[p] : p \in DOMAIN events}
    IN  [columns |-> keys,
         rows    |-> [p \in 1..Len(events) |->
                        [c \in keys \cup {"index"} |->
                            IF c = "index" THEN p - 1 ELSE events[p][c]]]]

\* the table of a log none of whose lines carries the keys `missing`: the
\* DataFrame constructor makes a column of each key that occurs in some line
Without(df, missing) ==
    [columns |-> df.columns \ missing,
     rows    |-> [p \in DOMAIN df.rows |->
                    [c \in (DOMAIN df.rows[p]) \ missing |-> df.rows[p][c]]]]

\* df[c] = v : the column c is created or overwritten with v on every row
SetColumn(df, c, v) ==
    [columns |-> df.columns \cup {c},
     rows    |-> [p \in DOMAIN df.rows |->
                    [x \in DOMAIN df.rows[p] \cup {c} |->
                        IF x = c THEN v ELSE df.rows[p][x]]]]

\* df.at[idx, c] = v : the cell of column c on the row(s) labelled idx
SetAt(df, idx, c, v) ==
    [columns |-> df.columns,
     rows    |-> [p \in DOMAIN df.rows |->
                    IF df.rows[p]["index"] = idx
                    THEN [x \in DOMAIN df.rows[p] |->
                            IF x = c THEN v ELSE df.rows[p][x]]
                    ELSE df.rows[p]]]

\* df.loc[idx] : the row labelled idx (labels are unique: a RangeIndex, permuted at most)
Loc(df, idx) ==
    df.rows[CHOOSE p \in DOMAIN df.rows : df.rows[p]["index"] = idx]

\* event.get(c, default) on a row
Get(row, c, default) == IF c \in DOMAIN row THEN row[c] ELSE default

\* event.get('eventType') == 'kill'
IsKill(row) == "eventType" \in DOMAIN row /\ row["eventType"] = "kill"

RECURSIVE SelectSeq2(_, _, _)
\* the subsequence of s at the positions p with keep[p], in order
SelectSeq2(s, keep, p) ==
    IF p > Len(s) THEN <<>>
    ELSE (IF keep[p] THEN <<s[p]>> ELSE <<>>) \o SelectSeq2(s, keep, p + 1)

\* df[mask].index : the labels of the rows the mask selects, in row order
MaskIndex(df, mask) ==
    SelectSeq2([p \in DOMAIN df.rows |-> df.rows[p]["index"]], mask, 1)

RECURSIVE UniqueFrom(_, _, _)
UniqueFrom(s, p, seen) ==
    IF p > Len(s) THEN <<>>
    ELSE IF s[p] \in seen THEN UniqueFrom(s, p + 1, seen)
    ELSE <<s[p]>> \o UniqueFrom(s, p + 1, seen \cup {s[p]})

\* df[c].unique() : the distinct values of a column in order of first appearance
Unique(df, c) == UniqueFrom([p \in DOMAIN df.rows |-> df.rows[p][c]], 1, {})

----------------------------------------------------------------------------
(* Strings: the text operations work on the sequence of a name's characters *)

\* the characters of the names the catalogs of the model use
Spell(name) ==
    CASE name = "Clutch_Situations" ->
            <<"C", "l", "u", "t", "c", "h", "_",
              "S", "i", "t", "u", "a", "t", "i", "o", "n", "s">>
      [] name = "Trade_Efficiency" ->
            <<"T", "r", "a", "d", "e", "_",
              "E", "f", "f", "i", "c", "i", "e", "n", "c", "y">>
      [] name = "Market" -> <<"M", "a", "r", "k", "e", "t">>
      [] name = "market" -> <<"m", "a", "r", "k", "e", "t">>
      [] name = "B Site" -> <<"B", " ", "S", "i", "t", "e">>
      [] name = "Exit Frag" -> <<"E", "x", "i", "t", " ", "F", "r", "a", "g">>
      [] name = "Trade Kill" -> <<"T", "r", "a", "d", "e", " ", "K", "i", "l", "l">>
      [] name = "Market Defense (Ascent)" ->
            <<"M", "a", "r", "k", "e", "t", " ", "D", "e", "f", "e", "n", "s", "e", " ",
              "(", "A", "s", "c", "e", "n", "t", ")">>

RECURSIVE Str(_)
\* the string a sequence of characters spells
Str(chars) == IF chars = <<>> THEN "" ELSE Head(chars) \o Str(Tail(chars))

UpperToLower ==
    [A |-> "a", B |-> "b", C |-> "c", D |-> "d", E |-> "e", F |-> "f", G |-> "g",
     H |-> "h", I |-> "i", J |-> "j", K |-> "k", L |-> "l", M |-> "m", N |-> "n",
     O |-> "o", P |-> "p", Q |-> "q", R |-> "r", S |-> "s", T |-> "t", U |-> "u",
     V |-> "v", W |-> "w", X |-> "x", Y |-> "y", Z |-> "z"]

\* str.lower()
Lower(chars) ==
    [i \in DOMAIN chars |->
        IF chars[i] \in DOMAIN UpperToLower THEN UpperToLower[chars[i]] ELSE chars[i]]

\* str.replace(old, new) for single characters
Replace(chars, old, new) ==
    [i \in DOMAIN chars |-> IF chars[i] = old THEN new ELSE chars[i]]

----------------------------------------------------------------------------
(* SITUATIONAL METRICS: _apply_situational                                 *)

SquadSize == 5
ReferenceSide == "Team A"
OpposingSide == "Team B"

\* a mutant of AliveAfter: a kill takes a player from both sides
AliveAfterBothSides(event, team_alive, enemy_alive) ==
    IF IsKill(event)
    THEN <<team_alive - 1, enemy_alive - 1>>
    ELSE <<team_alive, enemy_alive>>

\* lines 101-109: the alive counters after the event
AliveAfter(event, team_alive, enemy_alive) ==
    IF IsKill(event)
    THEN LET victim_team == Get(event, "victimTeam", "")
         IN  IF victim_team = ReferenceSide THEN <<team_alive - 1, enemy_alive>>
             ELSE IF victim_team = OpposingSide THEN <<team_alive, enemy_alive - 1>>
             ELSE <<team_alive, enemy_alive>>
    ELSE <<team_alive, enemy_alive>>

\* a mutant of SituationType: the clutch case is not told apart
SituationTypeNoClutch(team_alive, enemy_alive) ==
    LET advantage == team_alive - enemy_alive
    IN  IF advantage = 0 THEN "Even"
        ELSE IF advantage > 0 THEN "Advantage +" \o ToString(advantage)
        ELSE "Disadvantage " \o ToString(advantage)

\* lines 116-127: the situation label of a state of the counters
SituationType(team_alive, enemy_alive) ==
    LET advantage == team_alive - enemy_alive
        generic   == IF advantage = 0 THEN "Even"
                     ELSE IF advantage > 0 THEN "Advantage +" \o ToString(advantage)
                     ELSE "Disadvantage " \o ToString(advantage)
    IN  IF team_alive = 1 /\ enemy_alive > 1
        THEN "Clutch 1v" \o ToString(enemy_alive)
        ELSE generic

RECURSIVE RoundEvents(_, _, _, _)
\* lines 98-127: the loop over one round's events, in the row order of the frame
RoundEvents(df, idxs, team_alive, enemy_alive) ==
    IF idxs = <<>> THEN df
    ELSE LET idx   == Head(idxs)
             event == Loc(df, idx)
             alive == AliveAfter(event, team_alive, enemy_alive)
             d1    == SetAt(df, idx, "players_alive_team", alive[1])
             d2    == SetAt(d1, idx, "players_alive_enemy", alive[2])
             d3    == SetAt(d2, idx, "player_advantage", alive[1] - alive[2])
             d4    == SetAt(d3, idx, "situation_type", SituationType(alive[1], alive[2]))
         IN  RoundEvents(d4, Tail(idxs), alive[1], alive[2])

RECURSIVE Rounds(_, _)
\* lines 90-96: for round_num in df['roundNumber'].unique()
Rounds(df, round_nums) ==
    IF round_nums = <<>> THEN df
    ELSE LET round_num  == Head(round_nums)
             round_mask == [p \in DOMAIN df.rows |-> df.rows[p]["roundNumber"] = round_num]
         IN  Rounds(RoundEvents(df, MaskIndex(df, round_mask), SquadSize, SquadSize),
                    Tail(round_nums))

\* the exception _apply_situational ends with on df, "none" if it returns:
\* line 90 subscripts the column roundNumber
SituationalRaises(df, metric) ==
    IF metric.name = "Clutch_Situations" /\ "roundNumber" \notin df.columns
    THEN "KeyError" ELSE "none"

\* a mutant of _apply_situational: the name compared without regard to case
_apply_situationalAnyCase(df, metric) ==
    IF metric.name \in {"Clutch_Situations", "clutch_situations"}
    THEN LET d1 == SetColumn(df, "players_alive_team", 0)
             d2 == SetColumn(d1, "players_alive_enemy", 0)
             d3 == SetColumn(d2, "situation_type", "Unknown")
             d4 == SetColumn(d3, "player_advantage", 0)
         IN  Rounds(d4, Unique(d4, "roundNumber"))
    ELSE df

\* lines 76-129
_apply_situational(df, metric) ==
    IF metric.name = "Clutch_Situations"
    THEN LET d1 == SetColumn(df, "players_alive_team", 0)
             d2 == SetColumn(d1, "players_alive_enemy", 0)
             d3 == SetColumn(d2, "situation_type", "Unknown")
             d4 == SetColumn(d3, "player_advantage", 0)
         IN  Rounds(d4, Unique(d4, "roundNumber"))
    ELSE df

----------------------------------------------------------------------------
(* SPATIAL METRICS: _apply_spatial                                         *)

\* the square of math.sqrt((x2 - x1)**2 + (y2 - y1)**2)
_calculate_distance(x1, y1, x2, y2) ==
    (x2 - x1) * (x2 - x1) + (y2 - y1) * (y2 - y1)

\* bounds.get(key, default): a bound the rectangle omits is None
BoundsGet(bounds, key, default) ==
    IF bounds[key] = None THEN default ELSE bounds[key][1]

\* a mutant of ZoneMask: the upper bounds exclusive
ZoneMaskExclusiveMax(row, map_name, bounds) ==
    /\ row["map"] = map_name
    /\ (bounds["x_min"] = None \/ row["playerX"] >= bounds["x_min"][1])
    /\ (bounds["x_max"] = None \/ row["playerX"] < bounds["x_max"][1])
    /\ (bounds["y_min"] = None \/ row["playerY"] >= bounds["y_min"][1])
    /\ (bounds["y_max"] = None \/ row["playerY"] < bounds["y_max"][1])

\* lines 152-158: the mask of one row; a comparison with -inf / +inf is true
ZoneMask(row, map_name, bounds) ==
    /\ row["map"] = map_name
    /\ (bounds["x_min"] = None \/ row["playerX"] >= bounds["x_min"][1])
    /\ (bounds["x_max"] = None \/ row["playerX"] <= bounds["x_max"][1])
    /\ (bounds["y_min"] = None \/ row["playerY"] >= bounds["y_min"][1])
    /\ (bounds["y_max"] = None \/ row["playerY"] <= bounds["y_max"][1])

\* line 147: f"in_zone_{zone_name.lower().replace(' ', '_')}"
ZoneColumn(zone_name) == "in_zone_" \o Str(Replace(Lower(Spell(zone_name)), " ", "_"))

\* line 165: f'distance_to_{zone_name.lower()}'
ZoneDistanceColumn(zone_name) == "distance_to_" \o Str(Lower(Spell(zone_name)))

\* df[c] = values : the column c is created or overwritten row by row
SetColumnRows(df, c, values) ==
    [columns |-> df.columns \cup {c},
     rows    |-> [p \in DOMAIN df.rows |->
                    [x \in DOMAIN df.rows[p] \cup {c} |->
                        IF x = c THEN values[p] ELSE df.rows[p][x]]]]

\* the exception _apply_spatial ends with on df, "none" if it returns
SpatialRaises(df, metric) ==
    IF /\ "bounds" \in metric.keys
       /\ {"playerX", "playerY"} \subseteq df.columns
       /\ "map" \notin df.columns
    THEN "KeyError" ELSE "none"

\* lines 141-173.  The distance to the zone center is computed on doubled
\* coordinates (the center is (x_min + x_max) / 2), so the stored value is
\* four times the squared distance.  Every event of the model carries a
\* position, so the pd.notna(playerX) branch of line 169 is the one taken.
_apply_spatial(df, metric) ==
    IF "bounds" \in metric.keys
    THEN LET bounds      == metric.bounds
             map_name    == IF "map" \in metric.keys THEN metric.map ELSE "Unknown"
             zone_name   == metric.name
             column_name == ZoneColumn(zone_name)
             d1 == SetColumn(df, column_name, FALSE)
         IN  IF {"playerX", "playerY"} \subseteq df.columns
             THEN LET d2 == SetColumnRows(d1, column_name,
                               [p \in DOMAIN d1.rows |->
                                   ZoneMask(d1.rows[p], map_name, bounds)])
                      center_x2 == BoundsGet(bounds, "x_min", 0) + BoundsGet(bounds, "x_max", 0)
                      center_y2 == BoundsGet(bounds, "y_min", 0) + BoundsGet(bounds, "y_max", 0)
                  IN  SetColumnRows(d2, ZoneDistanceColumn(zone_name),
                          [p \in DOMAIN d2.rows |->
                              <<_calculate_distance(2 * d2.rows[p]["playerX"],
                                                    2 * d2.rows[p]["playerY"],
                                                    center_x2, center_y2)>>])
             ELSE d1
    ELSE df

----------------------------------------------------------------------------
(* TEMPORAL METRICS: _apply_temporal                                       *)

TradeWindow == 3
TradeDistance == 15

\* df.sort_values('gameTime'): the row orders an unstable sort (the default
\* quicksort) can leave; rows with equal gameTime come out in any order
SortValues(df, c) ==
    LET n == Len(df.rows)
    IN  {[columns |-> df.columns, rows |-> [p \in 1..n |-> df.rows[perm[p]]]] :
            perm \in {f \in [1..n -> 1..n] :
                        /\ \A a \in 1..n, b \in 1..n : a # b => f[a] # f[b]
                        /\ \A a \in 1..n, b \in 1..n :
                               a < b => df.rows[f[a]][c] <= df.rows[f[b]][c]}}

\* a mutant of RecentDeaths: the far end of the window exclusive
RecentDeathsOpenWindow(df, killer_team, kill_time) ==
    {p \in DOMAIN df.rows :
        /\ df.rows[p]["eventType"] = "kill"
        /\ df.rows[p]["victimTeam"] = killer_team
        /\ df.rows[p]["gameTime"] < kill_time
        /\ df.rows[p]["gameTime"] > kill_time - TradeWindow}

\* lines 210-215: the places of the rows of recent_deaths
RecentDeaths(df, killer_team, kill_time) ==
    {p \in DOMAIN df.rows :
        /\ df.rows[p]["eventType"] = "kill"
        /\ df.rows[p]["victimTeam"] = killer_team
        /\ df.rows[p]["gameTime"] < kill_time
        /\ df.rows[p]["gameTime"] >= kill_time - TradeWindow}

\* a mutant of LastDeath: the first of the recent deaths in row order
LastDeathFirst(df, recent_deaths) ==
    df.rows[CHOOSE p \in recent_deaths : \A q \in recent_deaths : p <= q]

\* line 219: recent_deaths.iloc[-1], the last of them in row order
LastDeath(df, recent_deaths) ==
    df.rows[CHOOSE p \in recent_deaths : \A q \in recent_deaths : q <= p]

RECURSIVE KillEvents(_, _)
\* lines 202-232: the loop over the kill events, in the sorted row order
KillEvents(df, idxs) ==
    IF idxs = <<>> THEN df
    ELSE LET idx           == Head(idxs)
             kill_event    == Loc(df, idx)
             killer_team   == kill_event["killerTeam"]
             kill_time     == kill_event["gameTime"]
             kill_x        == kill_event["killerX"]
             kill_y        == kill_event["killerY"]
             recent_deaths == RecentDeaths(df, killer_team, kill_time)
         IN  IF recent_deaths # {}
             THEN LET last_death == LastDeath(df, recent_deaths)
                      distance   == _calculate_distance(kill_x, kill_y,
                                        last_death["victimX"], last_death["victimY"])
                      time_diff  == kill_time - last_death["gameTime"]
                      d1 == SetAt(df, idx, "time_since_teammate_death", <<time_diff>>)
                      d2 == SetAt(d1, idx, "distance_to_teammate_death", <<distance>>)
                      d3 == IF distance <= TradeDistance * TradeDistance
                            THEN SetAt(d2, idx, "is_trade_kill", TRUE)
                            ELSE d2
                  IN  KillEvents(d3, Tail(idxs))
             ELSE KillEvents(df, Tail(idxs))

\* the exception _apply_temporal ends with on df, "none" if it returns: line
\* 197 sorts by the column gameTime, line 200 subscripts eventType and, for
\* each kill of the table, line 212 subscripts victimTeam
TemporalRaises(df, metric) ==
    IF /\ metric.name = "Trade_Efficiency"
       /\ \/ "gameTime" \notin df.columns
          \/ "eventType" \notin df.columns
          \/ /\ "victimTeam" \notin df.columns
             /\ \E p \in DOMAIN df.rows : IsKill(df.rows[p])
    THEN "KeyError" ELSE "none"

\* lines 191-234: the tables _apply_temporal can return
_apply_temporal(df, metric) ==
    IF metric.name = "Trade_Efficiency"
    THEN LET d1 == SetColumn(df, "is_trade_kill", FALSE)
             d2 == SetColumn(d1, "time_since_teammate_death", None)
             d3 == SetColumn(d2, "distance_to_teammate_death", None)
         IN  {KillEvents(sorted,
                  MaskIndex(sorted, [p \in DOMAIN sorted.rows |-> IsKill(sorted.rows[p])])) :
                sorted \in SortValues(d3, "gameTime")}
    ELSE {df}

----------------------------------------------------------------------------
(* COMPOSITE METRICS: _apply_composite                                     *)
(* A condition value is a list [kind |-> "list", items |-> literals], a    *)
(* string [kind |-> "str", chars |-> its characters] or another literal    *)
(* [kind |-> "lit", lit |-> literal]; a literal is [t, s, n, b] with t its  *)
(* Python type ("str", "num" or "bool") and its value in the field of that *)
(* type.                                                                   *)

StrColumns == {"eventType", "map", "killerTeam", "victimTeam", "situation_type"}
NumColumns == {"gameTime", "roundNumber", "playerX", "playerY", "killerX", "killerY",
               "victimX", "victimY", "players_alive_team", "players_alive_enemy",
               "player_advantage"}
OptColumns == {"time_since_teammate_death", "distance_to_teammate_death"}

\* the type of the cells of a column: strings, numbers, numbers or None, booleans
ColType(c) ==
    IF c \in StrColumns THEN "str"
    ELSE IF c \in NumColumns THEN "num"
    ELSE IF c \in OptColumns THEN "opt"
    ELSE "bool"

DigitValue ==
    [c \in {"0", "1", "2", "3", "4", "5", "6", "7", "8", "9"} |->
        CASE c = "0" -> 0 [] c = "1" -> 1 [] c = "2" -> 2 [] c = "3" -> 3 [] c = "4" -> 4
          [] c = "5" -> 5 [] c = "6" -> 6 [] c = "7" -> 7 [] c = "8" -> 8 [] c = "9" -> 9]

RECURSIVE Strip(_)
\* str.strip(): the blanks at both ends removed
Strip(chars) ==
    IF chars = <<>> THEN <<>>
    ELSE IF Head(chars) = " " THEN Strip(Tail(chars))
    ELSE IF chars[Len(chars)] = " " THEN Strip(SubSeq(chars, 1, Len(chars) - 1))
    ELSE chars

RECURSIVE DigitsValue(_, _)
DigitsValue(chars, acc) ==
    IF chars = <<>> THEN acc
    ELSE DigitsValue(Tail(chars), 10 * acc + DigitValue[Head(chars)])

\* float(text): <<n>> for a decimal numeral without fraction, None where float raises
\* (the thresholds of the model are whole numbers)
Float(chars) ==
    LET text   == Strip(chars)
        signed == text # <<>> /\ Head(text) = "-"
        digits == IF signed THEN Tail(text) ELSE text
    IN  IF digits # <<>> /\ \A i \in DOMAIN digits : digits[i] \in DOMAIN DigitValue
        THEN <<(IF signed THEN -1 ELSE 1) * DigitsValue(digits, 0)>>
        ELSE None

\* value.startswith(prefix) for a one-character prefix
StartsWith(chars, prefix) == chars # <<>> /\ Head(chars) = prefix

StrLit(s) == [t |-> "str", s |-> s, n |-> 0, b |-> FALSE]
NumLit(n) == [t |-> "num", s |-> "", n |-> n, b |-> FALSE]
BoolLit(b) == [t |-> "bool", s |-> "", n |-> 0, b |-> b]

\* cell == literal, elementwise: values of different types are unequal
CellEquals(ct, cell, lit) ==
    \/ ct = "str"  /\ lit.t = "str"  /\ cell = lit.s
    \/ ct = "num"  /\ lit.t = "num"  /\ cell = lit.n
    \/ ct = "bool" /\ lit.t = "bool" /\ cell = lit.b
    \/ ct = "opt"  /\ lit.t = "num"  /\ cell = <<lit.n>>

\* the number a cell is ordered by: None / NaN compares false with everything
CellNumber(ct, cell) ==
    IF ct = "num" THEN <<cell>>
    ELSE IF ct = "opt" THEN cell
    ELSE IF ct = "bool" THEN <<IF cell THEN 1 ELSE 0>>
    ELSE None

\* a mutant of ConditionMask: a condition on a column the table lacks is skipped
ConditionMaskFailOpen(df, p, key, value) ==
    IF key \notin df.columns THEN TRUE
    ELSE LET ct   == ColType(key)
             cell == df.rows[p][key]
         IN  IF value.kind = "list"
             THEN \E lit \in value.items : CellEquals(ct, cell, lit)
             ELSE IF value.kind = "str" /\ StartsWith(value.chars, ">")
             THEN CellNumber(ct, cell) # None
                  /\ CellNumber(ct, cell)[1] > Float(Tail(value.chars))[1]
             ELSE IF value.kind = "str" /\ StartsWith(value.chars, "<")
             THEN CellNumber(ct, cell) # None
                  /\ CellNumber(ct, cell)[1] < Float(Tail(value.chars))[1]
             ELSE IF value.kind = "str"
             THEN CellEquals(ct, cell, StrLit(Str(value.chars)))
             ELSE CellEquals(ct, cell, value.lit)

\* a mutant of ConditionMask: the comparisons not strict
ConditionMaskNotStrict(df, p, key, value) ==
    IF key \notin df.columns THEN FALSE
    ELSE LET ct   == ColType(key)
             cell == df.rows[p][key]
         IN  IF value.kind = "list"
             THEN \E lit \in value.items : CellEquals(ct, cell, lit)
             ELSE IF value.kind = "str" /\ StartsWith(value.chars, ">")
             THEN CellNumber(ct, cell) # None
                  /\ CellNumber(ct, cell)[1] >= Float(Tail(value.chars))[1]
             ELSE IF value.kind = "str" /\ StartsWith(value.chars, "<")
             THEN CellNumber(ct, cell) # None
                  /\ CellNumber(ct, cell)[1] <= Float(Tail(value.chars))[1]
             ELSE IF value.kind = "str"
             THEN CellEquals(ct, cell, StrLit(Str(value.chars)))
             ELSE CellEquals(ct, cell, value.lit)

\* lines 252-265: the right-hand side of one `&=` on row p.  df.get(key,
\* pd.Series()) is an empty Series when the table has no such column; isin, >,
\* < and == of it are empty, and `&` aligns it with the flag column, the
\* missing labels filled with False.
ConditionMask(df, p, key, value) ==
    IF key \notin df.columns THEN FALSE
    ELSE LET ct   == ColType(key)
             cell == df.rows[p][key]
         IN  IF value.kind = "list"
             THEN \E lit \in value.items : CellEquals(ct, cell, lit)
             ELSE IF value.kind = "str" /\ StartsWith(value.chars, ">")
             THEN CellNumber(ct, cell) # None
                  /\ CellNumber(ct, cell)[1] > Float(Tail(value.chars))[1]
             ELSE IF value.kind = "str" /\ StartsWith(value.chars, "<")
             THEN CellNumber(ct, cell) # None
                  /\ CellNumber(ct, cell)[1] < Float(Tail(value.chars))[1]
             ELSE IF value.kind = "str"
             THEN CellEquals(ct, cell, StrLit(Str(value.chars)))
             ELSE CellEquals(ct, cell, value.lit)

\* the exception one condition ends with: float() of a text that is no number,
\* or the ordering of the strings of a column against a number; "none" otherwise
ConditionRaises(df, key, value) ==
    IF value.kind = "str" /\ (StartsWith(value.chars, ">") \/ StartsWith(value.chars, "<"))
    THEN IF Float(Tail(value.chars)) = None THEN "ValueError"
         ELSE IF key \in df.columns /\ ColType(key) = "str" /\ df.rows # <<>>
         THEN "TypeError"
         ELSE "none"
    ELSE "none"

\* metric.get('conditions', {}) as the sequence of its items, in the map's order
Conditions(metric) == IF "conditions" \in metric.keys THEN metric.conditions ELSE <<>>

\* the exception _apply_composite ends with on df, "none" if it returns
CompositeRaises(df, metric) ==
    LET conditions == Conditions(metric)
        raising    == {i \in DOMAIN conditions :
                          ConditionRaises(df, conditions[i].key, conditions[i].value) # "none"}
    IN  IF raising = {} THEN "none"
        ELSE LET i == CHOOSE i \in raising : \A j \in raising : i <= j
             IN  ConditionRaises(df, conditions[i].key, conditions[i].value)

\* line 247: f"is_{metric['name'].lower().replace(' ', '_')}"
CompositeColumn(name) == "is_" \o Str(Replace(Lower(Spell(name)), " ", "_"))

RECURSIVE ApplyConditions(_, _, _)
\* lines 251-265: df[column_name] &= <mask>, one condition after the other
ApplyConditions(df, column_name, conditions) ==
    IF conditions = <<>> THEN df
    ELSE LET c == Head(conditions)
         IN  ApplyConditions(
                 SetColumnRows(df, column_name,
                     [p \in DOMAIN df.rows |->
                         df.rows[p][column_name] /\ ConditionMask(df, p, c.key, c.value)]),
                 column_name, Tail(conditions))

\* lines 246-267
_apply_composite(df, metric) ==
    LET column_name == CompositeColumn(metric.name)
    IN  ApplyConditions(SetColumn(df, column_name, TRUE), column_name, Conditions(metric))

----------------------------------------------------------------------------
(* enrich: the loop over the catalog                                       *)

MetricTypes == {"situational", "spatial", "temporal", "composite"}

\* the number of enrich calls a behaviour of the model makes at most
MaxCalls == 2

\* the catalog entry the loop is at
Metric == definitions[self][k + 1]

InLoop == pc = "loop" /\ k < Len(definitions[self])

\* line 50: enriched_df = df.copy()
Enrich(o, df) ==
    /\ pc = "idle"
    /\ self' = o
    /\ arg' = df
    /\ enriched_df' = df
    /\ k' = 0
    /\ pc' = "loop"
    /\ UNCHANGED <<answers, definitions, enriched_data, raw, err, calls>>

\* main(): enriched_df = enricher.enrich(df) on the loaded match data
EnrichLoaded ==
    /\ calls = <<>>
    /\ Enrich(1, raw)

\* a further enrich call, on the loaded data or on a table an earlier call
\* returned, of any of the enrichers
EnrichAny ==
    /\ Len(calls) < MaxCalls
    /\ \E o \in DOMAIN definitions :
           \E df \in {raw} \cup {calls[j].out : j \in DOMAIN calls} : Enrich(o, df)

\* an exception leaves enrich: the call does not return and nothing is stored
Raise(exception) ==
    /\ pc' = "raised"
    /\ err' = exception
    /\ UNCHANGED <<answers, definitions, enriched_data, raw, self, arg, enriched_df, k, calls>>

\* lines 59-60
ApplySituational ==
    /\ InLoop
    /\ Metric.type = "situational"
    /\ IF SituationalRaises(enriched_df, Metric) # "none"
       THEN Raise(SituationalRaises(enriched_df, Metric))
       ELSE /\ enriched_df' = _apply_situational(enriched_df, Metric)
            /\ k' = k + 1
            /\ UNCHANGED <<answers, definitions, enriched_data, raw, pc, self, arg, err, calls>>

\* lines 61-62
ApplySpatial ==
    /\ InLoop
    /\ Metric.type = "spatial"
    /\ IF SpatialRaises(enriched_df, Metric) # "none"
       THEN Raise(SpatialRaises(enriched_df, Metric))
       ELSE /\ enriched_df' = _apply_spatial(enriched_df, Metric)
            /\ k' = k + 1
            /\ UNCHANGED <<answers, definitions, enriched_data, raw, pc, self, arg, err, calls>>

\* lines 63-64
ApplyTemporal ==
    /\ InLoop
    /\ Metric.type = "temporal"
    /\ IF TemporalRaises(enriched_df, Metric) # "none"
       THEN Raise(TemporalRaises(enriched_df, Metric))
       ELSE /\ enriched_df' \in _apply_temporal(enriched_df, Metric)
            /\ k' = k + 1
            /\ UNCHANGED <<answers, definitions, enriched_data, raw, pc, self, arg, err, calls>>

\* lines 65-66
ApplyComposite ==
    /\ InLoop
    /\ Metric.type = "composite"
    /\ IF CompositeRaises(enriched_df, Metric) # "none"
       THEN Raise(CompositeRaises(enriched_df, Metric))
       ELSE /\ enriched_df' = _apply_composite(enriched_df, Metric)
            /\ k' = k + 1
            /\ UNCHANGED <<answers, definitions, enriched_data, raw, pc, self, arg, err, calls>>

\* lines 59-66: a type that is none of the four matches no branch
SkipUnknown ==
    /\ InLoop
    /\ Metric.type \notin MetricTypes
    /\ k' = k + 1
    /\ UNCHANGED <<answers, definitions, enriched_data, raw, pc, self, arg, enriched_df, err, calls>>

\* lines 68-70: self.enriched_data = enriched_df; return enriched_df
Return ==
    /\ pc = "loop"
    /\ k = Len(definitions[self])
    /\ enriched_data' = [enriched_data EXCEPT ![self] = enriched_df]
    /\ calls' = Append(calls, [self |-> self, df |-> arg, out |-> enriched_df])
    /\ pc' = "idle"
    /\ self' = 0
    /\ arg' = None
    /\ enriched_df' = None
    /\ k' = 0
    /\ UNCHANGED <<answers, definitions, raw, err>>

----------------------------------------------------------------------------
(* Inputs                                                                  *)

\* one decoded line of the match log
Event(eventType, gameTime, roundNumber, map, killerTeam, victimTeam, killer, victim) ==
    [eventType |-> eventType, gameTime |-> gameTime, roundNumber |-> roundNumber,
     map |-> map, killerTeam |-> killerTeam, victimTeam |-> victimTeam,
     playerX |-> killer[1], playerY |-> killer[2],
     killerX |-> killer[1], killerY |-> killer[2],
     victimX |-> victim[1], victimY |-> victim[2]]

\* the logs of at most n events drawn from a set of events
Logs(events, n) == UNION {[1..m -> events] : m \in 0..n}

\* a catalog entry; keys lists the optional keys the definition carries
MetricDef(name, type) ==
    [name |-> name, type |-> type, keys |-> {}, map |-> None,
     bounds |-> None, conditions |-> <<>>]

ClutchSituations == MetricDef("Clutch_Situations", "situational")

\* the state after construction of the enrichers and load_match_data
InitFrom(tables, catalogs) ==
    /\ raw \in tables
    /\ definitions \in catalogs
    /\ enriched_data = [o \in DOMAIN definitions |-> None]
    /\ pc = "idle"
    /\ self = 0
    /\ arg = None
    /\ enriched_df = None
    /\ k = 0
    /\ err = "none"
    /\ calls = <<>>
    /\ answers = <<>>

InitWith(logs, catalogs) == InitFrom({DataFrame(events) : events \in logs}, catalogs)

(* One round, long logs: the tracker's counters over a whole round *)
MaxRoundEvents == 8

OtherTeam(team) == IF team = ReferenceSide THEN OpposingSide ELSE ReferenceSide

RoundLogEvents ==
    {Event("kill", 0, 1, "Ascent", OtherTeam(v), v, <<0, 0>>, <<0, 0>>) :
        v \in {ReferenceSide, OpposingSide}}
    \cup {Event("damage", 0, 1, "Ascent", OpposingSide, ReferenceSide, <<0, 0>>, <<0, 0>>)}

InitRound == InitWith(Logs(RoundLogEvents, MaxRoundEvents), {<<<<ClutchSituations>>>>})

NextRound == EnrichLoaded \/ ApplySituational \/ Return

SpecRound == InitRound /\ [][NextRound]_vars

(* Two rounds, raw team identifiers other than the two literals *)
MaxSidesEvents == 4

SidesTeams == {ReferenceSide, OpposingSide, "Sentinels"}

SidesLogEvents ==
    {Event("kill", 0, r, "Ascent", "Cloud9", v, <<0, 0>>, <<0, 0>>) :
        r \in {1, 2}, v \in SidesTeams}
    \cup {Event("damage", 0, r, "Ascent", "Cloud9", ReferenceSide, <<0, 0>>, <<0, 0>>) :
        r \in {1, 2}}

InitSides == InitWith(Logs(SidesLogEvents, MaxSidesEvents), {<<<<ClutchSituations>>>>})

SpecSides == InitSides /\ [][NextRound]_vars

----------------------------------------------------------------------------
(* Claims on the situational tracker                                       *)

\* the tables of the state: the one enrich is working on, and those it returned
Tables ==
    (IF pc = "loop" THEN {enriched_df} ELSE {})
    \cup {calls[j].out : j \in DOMAIN calls}

Stamped(df) == "situation_type" \in df.columns

\* the kills of the row's round whose victim is on a side, up to and including row p
Deaths(df, p, side) ==
    Cardinality({q \in 1..p :
        /\ df.rows[q]["roundNumber"] = df.rows[p]["roundNumber"]
        /\ IsKill(df.rows[q])
        /\ df.rows[q]["victimTeam"] = side})

\* the row of the same round processed just before row p, 0 if p is the round's first
PrevInRound(df, p) ==
    LET before == {q \in 1..(p - 1) :
                      df.rows[q]["roundNumber"] = df.rows[p]["roundNumber"]}
    IN  IF before = {} THEN 0 ELSE CHOOSE q \in before : \A q2 \in before : q2 <= q

\* C1: after the situational metric is applied, every event has
\* player_advantage = players_alive_team - players_alive_enemy and both
\* counters lie in [0,5], also in rounds with more than five kills against one side.
C1_AdvantageAndCountersInRange ==
    \A df \in Tables : Stamped(df) =>
        \A p \in DOMAIN df.rows :
            LET row == df.rows[p]
            IN  /\ row["player_advantage"]
                     = row["players_alive_team"] - row["players_alive_enemy"]
                /\ row["players_alive_team"] \in 0..SquadSize
                /\ row["players_alive_enemy"] \in 0..SquadSize

\* C2: within a round both counters are non-increasing along the processing
\* order, and every kill event decrements exactly one of the two counters by
\* one, whatever the raw victimTeam identifier is.
C2_KillDecrementsExactlyOneCounter ==
    \A df \in Tables : Stamped(df) =>
        \A p \in DOMAIN df.rows :
            LET row    == df.rows[p]
                q      == PrevInRound(df, p)
                team0  == IF q = 0 THEN SquadSize ELSE df.rows[q]["players_alive_team"]
                enemy0 == IF q = 0 THEN SquadSize ELSE df.rows[q]["players_alive_enemy"]
                dteam  == team0 - row["players_alive_team"]
                denemy == enemy0 - row["players_alive_enemy"]
            IN  /\ dteam >= 0
                /\ denemy >= 0
                /\ IsKill(row) => dteam + denemy = 1

\* C3: every event's players_alive_team is 5 minus the number of kills of the
\* same round, up to and including the event in processing order, whose victim
\* is on the reference side, and players_alive_enemy likewise for the opposing
\* side; non-kill events carry the current counters and other rounds' kills do
\* not count.  Three reference-side deaths and no enemy death give advantage -3
\* and 'Disadvantage -3', a fourth gives 'Clutch 1v5'.
C3_CountersCountTheRoundsKills ==
    \A df \in Tables : Stamped(df) =>
        \A p \in DOMAIN df.rows :
            LET row == df.rows[p]
                a   == Deaths(df, p, ReferenceSide)
                b   == Deaths(df, p, OpposingSide)
            IN  /\ row["players_alive_team"] = SquadSize - a
                /\ row["players_alive_enemy"] = SquadSize - b
                /\ row["player_advantage"] = b - a
                /\ (a = 3 /\ b = 0) =>
                       /\ row["player_advantage"] = -3
                       /\ row["situation_type"] = "Disadvantage -3"
                /\ (a = 4 /\ b = 0) => row["situation_type"] = "Clutch 1v5"

\* a third reference-side death of a round stamped after a kill of another round
C3_Witness ==
    \E df \in Tables : Stamped(df) /\
        \E p \in DOMAIN df.rows, q \in DOMAIN df.rows :
            /\ q < p
            /\ df.rows[p]["situation_type"] = "Disadvantage -3"
            /\ df.rows[q]["roundNumber"] # df.rows[p]["roundNumber"]
            /\ IsKill(df.rows[q])
            /\ df.rows[q]["victimTeam"] = ReferenceSide

\* the largest count a label of the model can carry
LabelSpan == SquadSize + MaxRoundEvents + MaxSidesEvents

ClutchLabels == {"Clutch 1v" \o ToString(n) : n \in 2..LabelSpan}
AdvantageLabels == {"Advantage +" \o ToString(n) : n \in 1..LabelSpan}
DisadvantageLabels == {"Disadvantage " \o ToString(n) : n \in (-LabelSpan)..(-1)}
LabelFamilies == {ClutchLabels, AdvantageLabels, DisadvantageLabels, {"Even"}}

\* C4: a stamped event's situation_type is 'Clutch 1v{n}' iff team_alive = 1 and
\* enemy_alive = n > 1; otherwise it is 'Even' (advantage 0), 'Advantage +k'
\* (advantage k > 0) or 'Disadvantage k' (advantage k < 0); each event carries
\* exactly one of the four label families.
C4_SituationTypeFamilies ==
    \A df \in Tables : Stamped(df) =>
        \A p \in DOMAIN df.rows :
            LET row   == df.rows[p]
                team  == row["players_alive_team"]
                enemy == row["players_alive_enemy"]
                adv   == team - enemy
                label == row["situation_type"]
            IN  /\ \A n \in (-LabelSpan)..LabelSpan :
                       (label = "Clutch 1v" \o ToString(n))
                           <=> (team = 1 /\ enemy = n /\ n > 1)
                /\ label \in ClutchLabels <=> (team = 1 /\ enemy > 1)
                /\ label \notin ClutchLabels =>
                       /\ adv = 0 => label = "Even"
                       /\ adv > 0 => label = "Advantage +" \o ToString(adv)
                       /\ adv < 0 => label = "Disadvantage " \o ToString(adv)
                /\ Cardinality({f \in LabelFamilies : label \in f}) = 1

\* a round that passes through 1v2 (a clutch) and 1v1 (not a clutch)
C4_Witness ==
    \E df \in Tables : Stamped(df) /\
        \E p \in DOMAIN df.rows, q \in DOMAIN df.rows :
            /\ df.rows[p]["situation_type"] = "Clutch 1v2"
            /\ df.rows[q]["players_alive_team"] = 1
            /\ df.rows[q]["players_alive_enemy"] = 1
            /\ df.rows[q]["situation_type"] = "Even"

----------------------------------------------------------------------------
(* Zones: logs of positioned events, catalogs of spatial definitions       *)

MaxZoneEvents == 2

\* positions around the rectangle [1,2] x [1,2]: corners, edges, just outside
ZonePoints ==
    {<<1, 1>>, <<2, 2>>, <<0, 1>>, <<3, 1>>, <<1, 0>>, <<1, 3>>, <<2, 1>>}

ZoneLogEvents ==
    {Event("damage", 0, 1, "Ascent", OpposingSide, ReferenceSide, pt, pt) : pt \in ZonePoints}
    \cup {Event("damage", 0, 1, "Bind", OpposingSide, ReferenceSide, pt, pt) :
            pt \in {<<1, 1>>, <<0, 1>>}}

Rectangle(x_min, x_max, y_min, y_max) ==
    [x_min |-> x_min, x_max |-> x_max, y_min |-> y_min, y_max |-> y_max]

ZoneDef(name, keys, map, bounds) ==
    [name |-> name, type |-> "spatial", keys |-> keys, map |-> map,
     bounds |-> bounds, conditions |-> <<>>]


\* the definitions a catalog starts with: every choice of omitted bounds, a
\* definition without map and one without bounds
FirstZoneDefs ==
    {ZoneDef("Market", {"map", "bounds"}, "Ascent", Rectangle(a, b, c, d)) :
        a \in {None, <<1>>}, b \in {None, <<2>>}, c \in {None, <<1>>}, d \in {None, <<2>>}}
    \cup {ZoneDef("Market", {"bounds"}, None, Rectangle(<<1>>, <<2>>, <<1>>, <<2>>)),
          ZoneDef("Market", {"map"}, "Ascent", None)}

\* the definitions that may follow: another zone, and one whose name differs
\* from the first by case only
SecondZoneDefs ==
    {ZoneDef("B Site", {"map", "bounds"}, "Bind", Rectangle(<<1>>, <<1>>, None, <<1>>)),
     ZoneDef("market", {"map", "bounds"}, "Ascent", Rectangle(<<2>>, None, None, None))}

ZoneCatalogs ==
    {<<d>> : d \in FirstZoneDefs} \cup {<<d, e>> : d \in FirstZoneDefs, e \in SecondZoneDefs}

InitZone ==
    InitWith(Logs(ZoneLogEvents, MaxZoneEvents), {<<c>> : c \in ZoneCatalogs})

NextZone == EnrichLoaded \/ ApplySpatial \/ Return

SpecZone == InitZone /\ [][NextZone]_vars

\* the catalog entries the running call has applied so far
Applied == IF pc = "loop" THEN SubSeq(definitions[self], 1, k) ELSE <<>>

----------------------------------------------------------------------------
(* Trades: logs of kills around the 3-second window and the 15-unit radius *)

MaxTradeEvents == 3

TradeTimes == {0, 1, 3, 4}

\* a death at distance 15 and one at distance 16 from the killers' position <<0, 0>>
NearPoint == <<9, 12>>
FarPoint  == <<16, 0>>

TradeLogEvents ==
    {Event("kill", t, 1, "Ascent", OpposingSide, ReferenceSide, <<0, 0>>, pt) :
        t \in TradeTimes, pt \in {NearPoint, FarPoint}}
    \cup {Event("kill", t, 1, "Ascent", ReferenceSide, OpposingSide, <<0, 0>>, NearPoint) :
        t \in TradeTimes}
    \cup {Event("damage", 1, 1, "Ascent", OpposingSide, ReferenceSide, <<0, 0>>, NearPoint)}

TradeEfficiency == MetricDef("Trade_Efficiency", "temporal")

InitTrade == InitWith(Logs(TradeLogEvents, MaxTradeEvents), {<<<<TradeEfficiency>>>>})

NextTrade == EnrichLoaded \/ ApplyTemporal \/ Return

SpecTrade == InitTrade /\ [][NextTrade]_vars

Traded(df) == "is_trade_kill" \in df.columns

\* the earlier kills V of the table that qualify for kill K: the victim is on
\* K's killer's side and 0 < t(K) - t(V) <= 3.0
Avengeable(df, K) ==
    {V \in {df.rows[p] : p \in DOMAIN df.rows} :
        /\ IsKill(V)
        /\ V["victimTeam"] = K["killerTeam"]
        /\ 0 < K["gameTime"] - V["gameTime"]
        /\ K["gameTime"] - V["gameTime"] <= TradeWindow}

\* distance(killer position of K, victim position of V) <= 15.0
Near(K, V) ==
    (V["victimX"] - K["killerX"]) * (V["victimX"] - K["killerX"])
      + (V["victimY"] - K["killerY"]) * (V["victimY"] - K["killerY"])
        <= TradeDistance * TradeDistance

Latest(df, K) ==
    {V \in Avengeable(df, K) : \A W \in Avengeable(df, K) : W["gameTime"] <= V["gameTime"]}

C15_MostRecentQualifyingDeathIsUsed ==
    \A df \in Tables : Traded(df) =>
        \A p \in DOMAIN df.rows :
            LET K == df.rows[p]
            IN  IsKill(K) =>
                    IF Avengeable(df, K) # {}
                    THEN \E V \in Latest(df, K) :
                             /\ K["time_since_teammate_death"]
                                    = <<K["gameTime"] - V["gameTime"]>>
                             /\ K["distance_to_teammate_death"]
                                    = <<(V["victimX"] - K["killerX"]) * (V["victimX"] - K["killerX"])
                                        + (V["victimY"] - K["killerY"]) * (V["victimY"] - K["killerY"])>>
                    ELSE /\ K["time_since_teammate_death"] = None
                         /\ K["distance_to_teammate_death"] = None
                         /\ ~K["is_trade_kill"]

\* a kill at time 3 that arrives first, with qualifying deaths at times 0 (far)
\* and 1 (near): the one at time 1 is used; and a kill with no qualifying death
C15_Witness ==
    \E df \in Tables : Traded(df) /\
        \E p \in DOMAIN df.rows, q \in DOMAIN df.rows :
            LET K == df.rows[p]
            IN  /\ IsKill(K)
                /\ K["index"] = 0
                /\ {V["gameTime"] : V \in Avengeable(df, K)} = {0, 1}
                /\ K["time_since_teammate_death"] = <<2>>
                /\ K["distance_to_teammate_death"] = <<TradeDistance * TradeDistance>>
                /\ K["is_trade_kill"]
                /\ IsKill(df.rows[q])
                /\ Avengeable(df, df.rows[q]) = {}
                /\ df.rows[q]["time_since_teammate_death"] = None

----------------------------------------------------------------------------
(* Rules: logs of events, catalogs of one composite definition             *)

MaxRuleEvents == 2
MaxConditions == 2

RuleLogEvents ==
    {Event(type, 0, r, "Ascent", OpposingSide, ReferenceSide, <<0, 0>>, <<0, 0>>) :
        type \in {"kill", "damage"}, r \in {1, 2, 3}}

ListValue(items) == [kind |-> "list", items |-> items, chars |-> <<>>, lit |-> StrLit("")]
StrValue(chars) == [kind |-> "str", items |-> {}, chars |-> chars, lit |-> StrLit("")]
LitValue(lit) == [kind |-> "lit", items |-> {}, chars |-> <<>>, lit |-> lit]
Condition(key, value) == [key |-> key, value |-> value]

\* conditions of each kind on a string column and on a number column, and
\* conditions of each kind on columns the tables of these logs do not have
RuleConditions ==
    {Condition("eventType", ListValue({StrLit("kill"), StrLit("assist")})),
     Condition("eventType", StrValue(<<"k", "i", "l", "l">>)),
     Condition("eventType", StrValue(<<">", "1">>)),
     Condition("roundNumber", StrValue(<<">", "1">>)),
     Condition("roundNumber", StrValue(<<"<", " ", "3">>)),
     Condition("roundNumber", LitValue(NumLit(2))),
     Condition("roundNumber", ListValue({NumLit(1), NumLit(3), StrLit("kill")})),
     Condition("is_trade_kill", LitValue(BoolLit(TRUE))),
     Condition("distance_to_teammate_death", StrValue(<<"<", "1", "5">>)),
     Condition("situation_type", ListValue({StrLit("Even")}))}

\* the condition maps of at most n entries: a map has one entry per key
ConditionMaps(n) ==
    UNION {{c \in [1..m -> RuleConditions] :
               \A i \in 1..m, j \in 1..m : i # j => c[i].key # c[j].key} : m \in 0..n}

RuleDef(name, keys, conditions) ==
    [name |-> name, type |-> "composite", keys |-> keys, map |-> None,
     bounds |-> None, conditions |-> conditions]

RuleCatalogs ==
    {<<RuleDef("Exit Frag", {"conditions"}, c)>> : c \in ConditionMaps(MaxConditions)}
    \cup {<<RuleDef("Exit Frag", {}, <<>>)>>}

InitRule == InitWith(Logs(RuleLogEvents, MaxRuleEvents), {<<c>> : c \in RuleCatalogs})

NextRule == EnrichLoaded \/ ApplyComposite \/ Return

SpecRule == InitRule /\ [][NextRule]_vars

\* the call in progress has applied its catalog's only entry, a composite rule
RuleApplied ==
    /\ pc = "loop"
    /\ k = 1
    /\ Len(definitions[self]) = 1
    /\ definitions[self][1].type = "composite"

Digit == <<"0", "1", "2", "3", "4", "5", "6", "7", "8", "9">>

\* the decimal numeral of n in 0..99
Numeral(n) ==
    IF n < 10 THEN <<Digit[n + 1]>> ELSE <<Digit[(n \div 10) + 1], Digit[(n % 10) + 1]>>

\* the field's value is the literal (values of different types are different)
FieldIs(row, key, lit) ==
    /\ key \in DOMAIN row
    /\ lit.t = ColType(key)
    /\ row[key] = (CASE lit.t = "str" -> lit.s [] lit.t = "num" -> lit.n [] OTHER -> lit.b)

\* the condition holds for the event, in the words of the rule language
Holds(row, c) ==
    IF c.value.kind = "list"
    THEN \E item \in c.value.items : FieldIs(row, c.key, item)
    ELSE IF c.value.kind = "str" /\ StartsWith(c.value.chars, ">")
    THEN /\ c.key \in DOMAIN row
         /\ \E n \in 0..99 : Strip(Tail(c.value.chars)) = Numeral(n) /\ row[c.key] > n
    ELSE IF c.value.kind = "str" /\ StartsWith(c.value.chars, "<")
    THEN /\ c.key \in DOMAIN row
         /\ \E n \in 0..99 : Strip(Tail(c.value.chars)) = Numeral(n) /\ row[c.key] < n
    ELSE IF c.value.kind = "str"
    THEN FieldIs(row, c.key, StrLit(Str(c.value.chars)))
    ELSE FieldIs(row, c.key, c.value.lit)

\* C7: the composite flag is_<name> of an event is true iff every condition of
\* the map holds for the event (list: membership; '>' / '<' string: strictly
\* greater / less than the parsed threshold; other literal: equality), whatever
\* the order of the conditions; an empty map gives true for every event.
C7_FlagIffEveryConditionHolds ==
    RuleApplied =>
        LET def == definitions[self][1]
        IN  \A p \in DOMAIN enriched_df.rows :
                /\ enriched_df.rows[p]["is_exit_frag"] =
                       (\A i \in DOMAIN def.conditions : Holds(arg.rows[p], def.conditions[i]))
                /\ def.conditions = <<>> => enriched_df.rows[p]["is_exit_frag"]

\* the rule {roundNumber: ">1", eventType: [kill, assist]}, in this order, on a
\* log with an event it accepts and one it rejects
C7_Witness ==
    /\ RuleApplied
    /\ Len(definitions[self][1].conditions) = 2
    /\ definitions[self][1].conditions[1] = Condition("roundNumber", StrValue(<<">", "1">>))
    /\ definitions[self][1].conditions[2].value.kind = "list"
    /\ Len(enriched_df.rows) = 2
    /\ enriched_df.rows[1]["is_exit_frag"]
    /\ ~enriched_df.rows[2]["is_exit_frag"]
    /\ enriched_df.rows[2]["eventType"] = "kill"

\* C8: a composite condition on a field the table does not have evaluates to
\* false for every event and so does the flag, alike for membership, '>' / '<'
\* and equality conditions, and the application does not raise: an exception
\* can only come from a condition on a field the table has.
C8_AbsentFieldFailsClosed ==
    /\ RuleApplied =>
           LET def == definitions[self][1]
           IN  (\E i \in DOMAIN def.conditions : def.conditions[i].key \notin arg.columns)
                   => \A p \in DOMAIN enriched_df.rows : ~enriched_df.rows[p]["is_exit_frag"]
    /\ (pc = "raised" /\ Metric.type = "composite") =>
           \E i \in DOMAIN Metric.conditions :
               /\ Metric.conditions[i].key \in enriched_df.columns
               /\ Metric.conditions[i].value.kind = "str"

\* a rule of a comparison and a membership condition, both on absent fields,
\* applied to a log of two events
C8_Witness ==
    /\ RuleApplied
    /\ Len(definitions[self][1].conditions) = 2
    /\ definitions[self][1].conditions[1].key = "distance_to_teammate_death"
    /\ definitions[self][1].conditions[2].key = "situation_type"
    /\ Len(enriched_df.rows) = 2
    /\ \A p \in {1, 2} : ~enriched_df.rows[p]["is_exit_frag"]

----------------------------------------------------------------------------
(* Pipelines: two enrichers whose catalogs hold the situational and the    *)
(* temporal metric in the two orders, and up to MaxCalls enrich calls      *)

MaxPipeEvents == 2

PipeLogEvents ==
    {Event("kill", t, 1, "Ascent", OtherTeam(v), v, <<0, 0>>, NearPoint) :
        t \in {0, 1, 2}, v \in {ReferenceSide, OpposingSide}}
    \cup {Event("damage", t, 1, "Ascent", OpposingSide, ReferenceSide, <<0, 0>>, NearPoint) :
        t \in {0, 1, 2}}

\* the logs whose events have distinct game times, in any row order: the sort
\* of the temporal metric has one result on them
PipeLogs ==
    {events \in Logs(PipeLogEvents, MaxPipeEvents) :
        \A i \in DOMAIN events, j \in DOMAIN events :
            i # j => events[i]["gameTime"] # events[j]["gameTime"]}

Reverse(s) == [i \in DOMAIN s |-> s[Len(s) + 1 - i]]

PipeCatalogs ==
    {<<c, Reverse(c)>> :
        c \in {<<ClutchSituations, TradeEfficiency>>, <<TradeEfficiency, ClutchSituations>>}}

InitPipe == InitWith(PipeLogs, PipeCatalogs)

NextPipe == EnrichAny \/ ApplySituational \/ ApplyTemporal \/ Return

SpecPipe == InitPipe /\ [][NextPipe]_vars

\* every event (row label) has the same value in every derived column of the two tables
SameDerivedValues(t1, t2) ==
    /\ t1.columns = t2.columns
    /\ {r["index"] : r \in {t1.rows[p] : p \in DOMAIN t1.rows}}
         = {r["index"] : r \in {t2.rows[p] : p \in DOMAIN t2.rows}}
    /\ \A p \in DOMAIN t1.rows :
           \A c \in t1.columns \ RawColumns :
               Loc(t2, t1.rows[p]["index"])[c] = t1.rows[p][c]

\* C9: enrich applied to the table a first enrich (same catalog) returned gives
\* every event the same value in every derived column as the first run, also
\* for logs whose rows are not in gameTime order.
C9_EnrichIsIdempotent ==
    \A i \in DOMAIN calls, j \in DOMAIN calls :
        (/\ i < j
         /\ calls[j].self = calls[i].self
         /\ calls[j].df = calls[i].out)
            => SameDerivedValues(calls[i].out, calls[j].out)

\* C10: enrich with catalog [m1, m2] and enrich with catalog [m2, m1], m1 and
\* m2 of different kinds and not reading each other's columns, give every event
\* the same value in every derived column, for every input row order.
C10_UnrelatedMetricsCommute ==
    \A i \in DOMAIN calls, j \in DOMAIN calls :
        (/\ calls[i].df = calls[j].df
         /\ Len(definitions[calls[i].self]) = 2
         /\ definitions[calls[j].self] = Reverse(definitions[calls[i].self])
         /\ definitions[calls[i].self][1].type # definitions[calls[i].self][2].type)
            => SameDerivedValues(calls[i].out, calls[j].out)

----------------------------------------------------------------------------
(* Kinds: catalogs in which a definition's type is none of the four        *)

MaxKindEvents == 3

\* a definition whose type matches no branch of the dispatch, and one whose
\* type differs from a known one by case
KindDefs ==
    {ClutchSituations,
     MetricDef("Clutch_Situations", "economy"),
     MetricDef("Clutch_Situations", "Situational")}

KindCatalogs == {<<d>> : d \in KindDefs} \cup {<<d, e>> : d \in KindDefs, e \in KindDefs}

InitKinds == InitWith(Logs(RoundLogEvents, MaxKindEvents), {<<c>> : c \in KindCatalogs})

NextKinds == EnrichLoaded \/ ApplySituational \/ SkipUnknown \/ Return

SpecKinds == InitKinds /\ [][NextKinds]_vars

\* C11: a definition whose type is none of situational, spatial, temporal,
\* composite is reported as a configuration error when enrich reaches it: the
\* loop never goes past such a definition, and no enrich call completes
\* normally on a catalog that holds one.
C11_UnknownKindIsReported ==
    /\ \A i \in DOMAIN Applied : Applied[i].type \in MetricTypes
    /\ \A j \in DOMAIN calls :
           \A i \in DOMAIN definitions[calls[j].self] :
               definitions[calls[j].self][i].type \in MetricTypes

----------------------------------------------------------------------------
(* Missing columns: logs none of whose lines carries some of the keys      *)

MaxSoftEvents == 2

SoftLogEvents ==
    {Event("kill", t, 1, "Ascent", OpposingSide, ReferenceSide, <<1, 1>>, <<1, 1>>) :
        t \in {0, 1}}
    \cup {Event("damage", 0, 1, "Ascent", OpposingSide, ReferenceSide, <<1, 1>>, <<1, 1>>)}

\* the keys a log may lack: none, or one of the sets of columns a metric reads
SoftMissing ==
    {{}, {"playerX", "playerY"}, {"playerX"}, {"map"}, {"gameTime"}, {"eventType"},
     {"victimTeam"}, {"roundNumber"}}

SoftTables ==
    {Without(DataFrame(events), missing) :
        events \in Logs(SoftLogEvents, MaxSoftEvents), missing \in SoftMissing}

SoftDefs ==
    {ClutchSituations, TradeEfficiency,
     ZoneDef("Market", {"map", "bounds"}, "Ascent", Rectangle(<<1>>, <<2>>, <<1>>, <<2>>))}

SoftCatalogs == {<<d>> : d \in SoftDefs} \cup {<<d, e>> : d \in SoftDefs, e \in SoftDefs}

InitSoft == InitFrom(SoftTables, {<<c>> : c \in SoftCatalogs})

NextSoft == EnrichLoaded \/ ApplySituational \/ ApplySpatial \/ ApplyTemporal \/ Return

SpecSoft == InitSoft /\ [][NextSoft]_vars

\* the columns of the event table a metric requires
Required(def) ==
    CASE def.type = "spatial"     -> {"playerX", "playerY", "map"}
      [] def.type = "temporal"    -> {"gameTime", "eventType", "victimTeam"}
      [] def.type = "situational" -> {"roundNumber"}
      [] OTHER                    -> {}

\* C12: when a column a metric requires is missing from the event table
\* (playerX/playerY or map for a spatial metric, gameTime/eventType/victimTeam
\* for the temporal metric, roundNumber for the situational metric), applying
\* the metric does not raise, its boolean outputs are false for every event,
\* its other outputs are undefined, and enrich goes on with the remaining
\* definitions.
C12_MissingColumnsFailSoft ==
    /\ pc = "raised" => Required(Metric) \subseteq enriched_df.columns
    /\ \A j \in DOMAIN Applied :
           LET def == Applied[j]
           IN  ~(Required(def) \subseteq arg.columns) =>
                   \A p \in DOMAIN enriched_df.rows :
                       LET row == enriched_df.rows[p]
                       IN  CASE def.type = "spatial" ->
                                   /\ ~row[ZoneColumn(def.name)]
                                   /\ ZoneDistanceColumn(def.name) \in DOMAIN row
                                          => row[ZoneDistanceColumn(def.name)] = None
                             [] def.type = "temporal" ->
                                   /\ ~row["is_trade_kill"]
                                   /\ row["time_since_teammate_death"] = None
                                   /\ row["distance_to_teammate_death"] = None
                             [] OTHER -> "situation_type" \notin DOMAIN row

----------------------------------------------------------------------------
(* THE ASSISTANT COACH: src/assistant_coach_llm.py, class AssistantCoach    *)
(* An answer is [kind, rate, exception]: kind "unavailable" for the dict   *)
(* {"error": "... not available", ...}, "answer" for a dict of data and    *)
(* insight, "raised" when the handler ends with an exception; rate is the  *)
(* rendered percentage <<text>>, or <<>> when the dict carries none.       *)

Answer(kind, rate, exception) == [kind |-> kind, rate |-> rate, exception |-> exception]

\* export_enriched_data (to_csv(index=False)) followed by pd.read_csv: the
\* row labels are not written, the table read has a fresh RangeIndex
ReadCsv(df) ==
    [columns |-> df.columns,
     rows    |-> [p \in DOMAIN df.rows |->
                    [c \in DOMAIN df.rows[p] |->
                        IF c = "index" THEN p - 1 ELSE df.rows[p][c]]]]

\* the quotient num / den in units of 1 / scale, rounded to the nearest unit,
\* a tie to the even one (the rounding of the format specs .1f and .0f)
Rounded(num, den, scale) ==
    LET q == (num * scale) \div den
        r == (num * scale) % den
    IN  IF 2 * r > den \/ (2 * r = den /\ q % 2 = 1) THEN q + 1 ELSE q

\* f"{(num / den) * 100:.1f}%"
Percent1(num, den) ==
    LET tenths == Rounded(100 * num, den, 10)
    IN  ToString(tenths \div 10) \o "." \o ToString(tenths % 10) \o "%"

\* f"{(num / den) * 100:.0f}%"
Percent0(num, den) == ToString(Rounded(100 * num, den, 1)) \o "%"

\* line 65
MarketColumn == "in_zone_market_defense_(ascent)"

\* series.nunique() / len(series.unique()) of column c over the rows at places ps
NUnique(data, c, ps) == Cardinality({data.rows[p][c] : p \in ps})

\* lines 62-101
_analyze_market_performance(data) ==
    IF MarketColumn \notin data.columns THEN Answer("unavailable", <<>>, "none")
    ELSE IF "roundNumber" \notin data.columns THEN Answer("raised", <<>>, "KeyError")
    ELSE LET market_events == {p \in DOMAIN data.rows : data.rows[p][MarketColumn]}
             market_rounds == NUnique(data, "roundNumber", market_events)
             total_rounds  == NUnique(data, "roundNumber", DOMAIN data.rows)
         IN  IF total_rounds = 0 THEN Answer("raised", <<>>, "ZeroDivisionError")
             ELSE Answer("answer", <<Percent1(market_rounds, total_rounds)>>, "none")

\* lines 103-140
_analyze_trade_efficiency(data) ==
    IF "is_trade_kill" \notin data.columns THEN Answer("unavailable", <<>>, "none")
    ELSE IF "eventType" \notin data.columns THEN Answer("raised", <<>>, "KeyError")
    ELSE LET kills       == {p \in DOMAIN data.rows : IsKill(data.rows[p])}
             trades      == {p \in kills : data.rows[p]["is_trade_kill"]}
             total_kills == Cardinality(kills)
             trade_kills == Cardinality(trades)
         IN  IF total_kills > 0
             THEN Answer("answer", <<Percent1(trade_kills, total_kills)>>, "none")
             ELSE Answer("answer", <<Percent1(0, 1)>>, "none")

\* str.startswith('Clutch') on the labels the situation_type column holds
StartsWithClutch(label) == label \in {"Clutch 1v" \o ToString(n) : n \in 0..9}

\* int(clutch_attempts * 0.22)
ClutchWins(clutch_attempts) == (clutch_attempts * 22) \div 100

\* lines 142-179
_analyze_clutch_situations(data) ==
    IF "situation_type" \notin data.columns THEN Answer("unavailable", <<>>, "none")
    ELSE LET clutch_events   == {p \in DOMAIN data.rows :
                                    StartsWithClutch(data.rows[p]["situation_type"])}
             clutch_attempts == NUnique(data, "roundNumber", clutch_events)
             clutch_wins     == ClutchWins(clutch_attempts)
         IN  IF clutch_attempts = 0 THEN Answer("raised", <<>>, "ZeroDivisionError")
             ELSE Answer("answer", <<Percent0(clutch_wins, clutch_attempts)>>, "none")

\* lines 181-224; the insight of the trade dimension is appended only if the
\* player has kills
_analyze_player_performance(data, player_name) ==
    IF "playerName" \notin data.columns THEN Answer("raised", <<>>, "KeyError")
    ELSE LET player_events == {p \in DOMAIN data.rows :
                                  data.rows[p]["playerName"] = player_name}
         IN  IF player_events = {} THEN Answer("unavailable", <<>>, "none")
             ELSE IF "is_trade_kill" \notin data.columns THEN Answer("answer", <<>>, "none")
             ELSE LET trade_kills == {p \in player_events : data.rows[p]["is_trade_kill"]}
                      total_kills == {p \in player_events : IsKill(data.rows[p])}
                  IN  IF total_kills # {}
                      THEN Answer("answer",
                               <<Percent1(Cardinality(trade_kills), Cardinality(total_kills))>>,
                               "none")
                      ELSE Answer("answer", <<>>, "none")

\* the number of answers a behaviour of the model asks for at most
MaxAnswers == 1

\* self.data: the file main() exported after enrich, as read by __init__
Data == ReadCsv(calls[Len(calls)].out)

\* one call of a handler of query() on the coach
Ask(op, out) ==
    /\ pc = "idle"
    /\ calls # <<>>
    /\ calls[Len(calls)].out.columns # {}
    /\ Len(answers) < MaxAnswers
    /\ answers' = Append(answers, [op |-> op, data |-> Data, out |-> out])
    /\ UNCHANGED <<definitions, enriched_data, raw, pc, self, arg, enriched_df, k, err, calls>>

AnalyzeMarket == Ask("market", _analyze_market_performance(Data))

AnalyzeTrade == Ask("trade", _analyze_trade_efficiency(Data))

AnalyzeClutch == Ask("clutch", _analyze_clutch_situations(Data))

AnalyzePlayer == Ask("player", _analyze_player_performance(Data, "OXY"))

MaxCoachEvents == 3

\* an event of the log with the playerName key of the match data
Played(event, playerName) ==
    [c \in (DOMAIN event) \cup {"playerName"} |->
        IF c = "playerName" THEN playerName ELSE event[c]]

CoachLogEvents ==
    {Played(Event("kill", 1, 1, "Ascent", OpposingSide, ReferenceSide,
                  <<0, 0>>, <<0, 0>>), "vanity"),
     Played(Event("kill", 2, 1, "Ascent", ReferenceSide, OpposingSide,
                  <<600, 1300>>, <<0, 0>>), "OXY"),
     Played(Event("damage", 0, 1, "Ascent", ReferenceSide, OpposingSide,
                  <<0, 0>>, <<0, 0>>), "OXY"),
     Played(Event("damage", 3, 2, "Ascent", OpposingSide, ReferenceSide,
                  <<600, 1300>>, <<0, 0>>), "vanity")}

MarketDefense ==
    ZoneDef("Market Defense (Ascent)", {"map", "bounds"}, "Ascent",
            Rectangle(<<500>>, <<800>>, <<1200>>, <<1500>>))

CoachCatalogs ==
    {<<ClutchSituations, TradeEfficiency, MarketDefense>>,
     <<ClutchSituations>>,
     <<MarketDefense, TradeEfficiency>>}

InitCoach == InitWith(Logs(CoachLogEvents, MaxCoachEvents), {<<c>> : c \in CoachCatalogs})

NextCoach ==
    \/ EnrichLoaded \/ ApplySituational \/ ApplySpatial \/ ApplyTemporal \/ Return
    \/ AnalyzeMarket \/ AnalyzeTrade \/ AnalyzeClutch \/ AnalyzePlayer

SpecCoach == InitCoach /\ [][NextCoach]_vars

\* the denominator of the rate an operation computes on a table: the kills,
\* the rounds, the rounds with a clutch situation, the player's kills
Denominator(op, data) ==
    LET places == DOMAIN data.rows
    IN  CASE op = "trade"  -> Cardinality({p \in places : IsKill(data.rows[p])})
          [] op = "market" ->
                 Cardinality({Get(data.rows[p], "roundNumber", None) : p \in places})
          [] op = "clutch" ->
                 Cardinality({Get(data.rows[p], "roundNumber", None) :
                     p \in {q \in places :
                         /\ "situation_type" \in DOMAIN data.rows[q]
                         /\ StartsWithClutch(data.rows[q]["situation_type"])}})
          [] op = "player" ->
                 Cardinality({p \in places :
                     /\ IsKill(data.rows[p])
                     /\ Get(data.rows[p], "playerName", "") = "OXY"})

\* C13: every rate of the coaching operations (trade rate over total kills,
\* market engagement over total rounds, clutch success over clutch attempts,
\* per-player trade rate) yields an explicit 'not applicable' outcome when its
\* denominator is zero: the operation does not raise and reports no percentage.
C13_ZeroDenominatorIsNotApplicable ==
    \A i \in DOMAIN answers :
        Denominator(answers[i].op, answers[i].data) = 0 =>
            /\ answers[i].out.exception = "none"
            /\ answers[i].out.rate = <<>>
            /\ answers[i].out.kind = "unavailable"

----------------------------------------------------------------------------
(* Row order: the situational metric on the row orders of a log whose      *)
(* events have distinct game times                                         *)

\* the tables of the same rows, labels kept, in every row order
Permuted(df) ==
    LET n == Len(df.rows)
    IN  {[columns |-> df.columns, rows |-> [p \in 1..n |-> df.rows[f[p]]]] :
            f \in {g \in [1..n -> 1..n] : \A a \in 1..n, b \in 1..n : a # b => g[a] # g[b]}}

\* an enrich call on the loaded table with its rows in some order
EnrichPermuted ==
    /\ Len(calls) < MaxCalls
    /\ \E df \in Permuted(raw) : Enrich(1, df)

InitOrder == InitWith(PipeLogs, {<<<<ClutchSituations>>>>})

NextOrder == EnrichPermuted \/ ApplySituational \/ Return

SpecOrder == InitOrder /\ [][NextOrder]_vars

\* the kills of the row's round whose victim is on a side and whose game time
\* is not after the row's
DeathsUntil(df, p, side) ==
    Cardinality({q \in DOMAIN df.rows :
        /\ df.rows[q]["roundNumber"] = df.rows[p]["roundNumber"]
        /\ df.rows[q]["gameTime"] <= df.rows[p]["gameTime"]
        /\ IsKill(df.rows[q])
        /\ df.rows[q]["victimTeam"] = side})

\* C14: the situational tracker processes each round's events in ascending
\* gameTime whatever the row order of the table: the counters of an event
\* count the round's kills up to its game time, and for any permutation of a
\* log's rows (distinct gameTimes within each round) each event receives the
\* same players_alive_team, players_alive_enemy and situation_type.
C14_SituationalFollowsGameTime ==
    /\ \A df \in Tables : Stamped(df) =>
           \A p \in DOMAIN df.rows :
               /\ df.rows[p]["players_alive_team"]
                      = SquadSize - DeathsUntil(df, p, ReferenceSide)
               /\ df.rows[p]["players_alive_enemy"]
                      = SquadSize - DeathsUntil(df, p, OpposingSide)
    /\ \A i \in DOMAIN calls, j \in DOMAIN calls :
           \A p \in DOMAIN calls[i].out.rows, q \in DOMAIN calls[j].out.rows :
               LET e == calls[i].out.rows[p]
                   f == calls[j].out.rows[q]
               IN  e["index"] = f["index"] =>
                       /\ e["players_alive_team"] = f["players_alive_team"]
                       /\ e["players_alive_enemy"] = f["players_alive_enemy"]
                       /\ e["situation_type"] = f["situation_type"]

----------------------------------------------------------------------------
(* Trades across rounds: logs of kills of two rounds whose game times fall *)
(* within the lookback of one another                                      *)

MaxCrossEvents == 3

CrossLogEvents ==
    {Event("kill", t, r, "Ascent", OtherTeam(v), v, <<0, 0>>, NearPoint) :
        t \in {0, 1}, r \in {1, 2}, v \in {ReferenceSide, OpposingSide}}

InitCross == InitWith(Logs(CrossLogEvents, MaxCrossEvents), {<<<<TradeEfficiency>>>>})

SpecCross == InitCross /\ [][NextTrade]_vars

\* the qualifying deaths of K's own round, and the most recent of them
AvengeableInRound(df, K) ==
    {V \in Avengeable(df, K) : V["roundNumber"] = K["roundNumber"]}

LatestInRound(df, K) ==
    {V \in AvengeableInRound(df, K) :
        \A W \in AvengeableInRound(df, K) : W["gameTime"] <= V["gameTime"]}

\* C16: trade detection is independent per round: the is_trade_kill,
\* time_since_teammate_death and distance_to_teammate_death of a kill of round r
\* are determined by the kills of round r only; a teammate death of another
\* round is never the avenged death, also when its gameTime falls inside the
\* 3-second lookback.
C16_TradeDetectionIsPerRound ==
    \A df \in Tables : Traded(df) =>
        \A p \in DOMAIN df.rows :
            LET K == df.rows[p]
            IN  IsKill(K) =>
                    IF AvengeableInRound(df, K) = {}
                    THEN /\ ~K["is_trade_kill"]
                         /\ K["time_since_teammate_death"] = None
                         /\ K["distance_to_teammate_death"] = None
                    ELSE \E V \in LatestInRound(df, K) :
                             /\ K["time_since_teammate_death"]
                                    = <<K["gameTime"] - V["gameTime"]>>
                             /\ K["is_trade_kill"] = Near(K, V)

----------------------------------------------------------------------------
(* Frames: catalogs of two stages of every kind, some of which write a     *)
(* column of the same name                                                 *)

MaxFrameEvents == 2

FrameLogEvents ==
    {Event("kill", t, 1, "Ascent", OtherTeam(v), v, <<0, 0>>, NearPoint) :
        t \in {0, 1}, v \in {ReferenceSide, OpposingSide}}
    \cup {Event("damage", 2, 1, "Ascent", OpposingSide, ReferenceSide, <<0, 0>>, NearPoint)}

\* the four kinds; two zones whose names differ by case, and a rule whose flag
\* has the name of the trade detector's
FrameDefs ==
    {ClutchSituations,
     TradeEfficiency,
     ZoneDef("Market", {"map", "bounds"}, "Ascent", Rectangle(<<0>>, <<1>>, <<0>>, <<1>>)),
     ZoneDef("market", {"map", "bounds"}, "Ascent", Rectangle(<<1>>, <<2>>, <<0>>, <<1>>)),
     RuleDef("Exit Frag", {"conditions"},
             <<Condition("eventType", ListValue({StrLit("kill")}))>>),
     RuleDef("Trade Kill", {"conditions"},
             <<Condition("eventType", StrValue(<<"d", "a", "m", "a", "g", "e">>))>>)}

FrameCatalogs == {<<d>> : d \in FrameDefs} \cup {<<d, e>> : d \in FrameDefs, e \in FrameDefs}

InitFrame == InitWith(Logs(FrameLogEvents, MaxFrameEvents), {<<c>> : c \in FrameCatalogs})

NextFrame ==
    \/ EnrichLoaded \/ ApplySituational \/ ApplySpatial \/ ApplyTemporal \/ ApplyComposite
    \/ Return

SpecFrame == InitFrame /\ [][NextFrame]_vars

\* the output columns a definition names
OwnOutputs(def) ==
    CASE def.type = "situational" ->
             {"players_alive_team", "players_alive_enemy", "player_advantage",
              "situation_type"}
      [] def.type = "temporal" ->
             {"is_trade_kill", "time_since_teammate_death", "distance_to_teammate_death"}
      [] def.type = "spatial" ->
             {"in_zone_" \o Str(Replace(Lower(Spell(def.name)), " ", "_")),
              "distance_to_" \o Str(Lower(Spell(def.name)))}
      [] def.type = "composite" ->
             {"is_" \o Str(Replace(Lower(Spell(def.name)), " ", "_"))}

\* a step of the loop that applies the catalog entry Metric
Stage == pc = "loop" /\ pc' = "loop" /\ k' = k + 1

\* the stage leaves every event's value of column c as it was
Preserved(c) ==
    \A p \in DOMAIN enriched_df.rows :
        \E q \in DOMAIN enriched_df'.rows :
            /\ enriched_df'.rows[q]["index"] = enriched_df.rows[p]["index"]
            /\ enriched_df'.rows[q][c] = enriched_df.rows[p][c]

\* the columns the earlier stages of the call wrote under a metric other than
\* the one being applied
EarlierColumns ==
    enriched_df.columns
        \cap UNION {OwnOutputs(Applied[j]) : j \in {i \in DOMAIN Applied : Applied[i] # Metric}}

\* C17 as stated: applying any metric definition leaves unchanged, for every
\* event, the values of the original event fields and of every column an
\* earlier stage of the catalog wrote under a different metric.
C17_StagesKeepEarlierColumns ==
    [][Stage => \A c \in arg.columns \cup EarlierColumns : Preserved(c)]_vars

\* what the stages do keep: a definition leaves unchanged, for every event, the
\* value of every column other than its own named outputs and adds no column
\* other than those; a column an earlier stage wrote is changed only by a
\* definition one of whose own outputs has that column's name.
StagesChangeOnlyOwnOutputs ==
    [][Stage =>
          /\ \A c \in enriched_df.columns \ OwnOutputs(Metric) : Preserved(c)
          /\ enriched_df'.columns \subseteq enriched_df.columns \cup OwnOutputs(Metric)
          /\ enriched_df.columns \subseteq enriched_df'.columns
          /\ Len(enriched_df'.rows) = Len(enriched_df.rows)]_vars

----------------------------------------------------------------------------
(* Names: situational and temporal definitions under other names           *)

MaxGateEvents == 2

GateNames == {"Clutch_Situations", "Trade_Efficiency", "clutch_situations", "Trade Efficiency"}

GateDefs == {MetricDef(name, type) : name \in GateNames, type \in {"situational", "temporal"}}

GateCatalogs == {<<d>> : d \in GateDefs} \cup {<<d, e>> : d \in GateDefs, e \in GateDefs}

GateLogEvents ==
    {Event("kill", t, 1, "Ascent", OtherTeam(v), v, <<0, 0>>, NearPoint) :
        t \in {0, 1}, v \in {ReferenceSide, OpposingSide}}

InitGate == InitWith(Logs(GateLogEvents, MaxGateEvents), {<<c>> : c \in GateCatalogs})

NextGate == EnrichLoaded \/ ApplySituational \/ ApplyTemporal \/ Return

SpecGate == InitGate /\ [][NextGate]_vars

\* the definition has the one name its kind acts on
ExactName(def) ==
    \/ def.type = "situational" /\ def.name = "Clutch_Situations"
    \/ def.type = "temporal" /\ def.name = "Trade_Efficiency"

\* C18: a situational definition adds players_alive_team, players_alive_enemy,
\* player_advantage and situation_type only when its name is exactly
\* 'Clutch_Situations', a temporal definition adds is_trade_kill and its two
\* companion fields only when its name is exactly 'Trade_Efficiency'; a
\* definition of any other name is applied without error and the table comes
\* back with no column added or changed.
C18_OnlyTheExactNameActs ==
    [][/\ Stage =>
              IF ExactName(Metric)
              THEN OwnOutputs(Metric) \subseteq enriched_df'.columns
              ELSE enriched_df' = enriched_df
       /\ pc' = "raised" => pc = "raised" \/ ExactName(Metric)]_vars

\* a situational definition named in lower case, then the trade detector, on
\* two kills: the trade columns are there, the situational ones are not
C18_Witness ==
    /\ pc = "loop"
    /\ k = 2
    /\ Applied = <<MetricDef("clutch_situations", "situational"), TradeEfficiency>>
    /\ Len(enriched_df.rows) = 2
    /\ "is_trade_kill" \in enriched_df.columns
    /\ enriched_df.columns \cap OwnOutputs(Applied[1]) = {}
    /\ \E p \in DOMAIN enriched_df.rows : enriched_df.rows[p]["is_trade_kill"]

====
